---- MODULE Spec2Model ----
(***************************************************************************)
(* The LiteLLM custom provider ClaudeAgentSDKProvider                      *)
(* (src/providers/claude_agent_provider.py) as a state machine.            *)
(*                                                                         *)
(* The provider instance has no attributes of its own: all state lives in  *)
(* the frames of the calls in progress.  A call frame holds the handler's  *)
(* arguments, its locals, the SDK messages query() has delivered to it so  *)
(* far, the chunks it has yielded and its outcome.  The handlers are       *)
(* coroutines: a frame advances once per SDK message (each iteration of    *)
(* `async for` is a suspension point), and frames of different calls       *)
(* interleave at those points.                                             *)
(*                                                                         *)
(* Python strings are sequences of one-character strings, so that split,   *)
(* join, concatenation and len are computed, not assumed.                  *)
(***************************************************************************)
EXTENDS Integers, Sequences, FiniteSets, TLC

VARIABLES calls, proc

vars == <<calls, proc>>

-----------------------------------------------------------------------------
(* Bounds of the model. *)

MaxModelLen == 3
MaxMessages == 2
MaxStreamLen == 3
MaxConcStreamLen == 2
MaxKeyLen == 4

-----------------------------------------------------------------------------
(* Python values. *)

\* Python's None where the other values of the field are strings.
None == "None"

\* Python's None where the other values of the field are records.
NoneRec == [py_none |-> TRUE]

\* dict.get(key, default)
Get(d, key, default) == IF key \in DOMAIN d THEN d[key] ELSE default

Last(s) == s[Len(s)]

RECURSIVE Concat(_)
\* "".join(parts)
Concat(parts) ==
    IF parts = <<>> THEN <<>> ELSE Head(parts) \o Concat(Tail(parts))

RECURSIVE Join(_, _)
\* sep.join(parts)
Join(parts, sep) ==
    IF parts = <<>> THEN <<>>
    ELSE IF Len(parts) = 1 THEN parts[1]
    ELSE parts[1] \o sep \o Join(Tail(parts), sep)

Contains(s, ch) == \E i \in 1..Len(s) : s[i] = ch

FirstIndex(s, ch) == CHOOSE i \in 1..Len(s) : s[i] = ch /\ \A j \in 1..(i - 1) : s[j] # ch

RECURSIVE Split(_, _)
\* s.split(ch): the segments between the occurrences of ch, empty ones kept
Split(s, ch) ==
    IF ~Contains(s, ch) THEN <<s>>
    ELSE LET i == FirstIndex(s, ch)
         IN  <<SubSeq(s, 1, i - 1)>> \o Split(SubSeq(s, i + 1, Len(s)), ch)

SeqsUpTo(S, n) == UNION {[1..k -> S] : k \in 0..n}

-----------------------------------------------------------------------------
(* String literals of the source. *)

SystemPrefix == <<"S", "y", "s", "t", "e", "m", ":", " ">>
HumanPrefix == <<"H", "u", "m", "a", "n", ":", " ">>
AssistantPrefix == <<"A", "s", "s", "i", "s", "t", "a", "n", "t", ":", " ">>
PartSeparator == <<"\n", "\n">>
Slash == "/"
ProviderName == "claude-agent-sdk"
StatusCode == 500

-----------------------------------------------------------------------------
(* The pure helpers of the provider. *)

RECURSIVE PromptParts(_)
\* the loop of format_messages_to_prompt: one part per message whose role is
\* system, user or assistant; a message of any other role adds nothing
PromptParts(messages) ==
    IF messages = <<>> THEN <<>>
    ELSE LET message == Head(messages)
             role == Get(message, "role", "user")
             content == Get(message, "content", <<>>)
             part == IF role = "system" THEN <<SystemPrefix \o content>>
                     ELSE IF role = "user" THEN <<HumanPrefix \o content>>
                     ELSE IF role = "assistant" THEN <<AssistantPrefix \o content>>
                     ELSE <<>>
         IN  part \o PromptParts(Tail(messages))

format_messages_to_prompt(messages) == Join(PromptParts(messages), PartSeparator)

extract_claude_model_first(model) ==
    IF Contains(model, Slash) THEN Head(Split(model, Slash)) ELSE model

extract_claude_model(model) ==
    IF Contains(model, Slash) THEN Last(Split(model, Slash)) ELSE model

ClaudeAgentOptions_splat(claude_model, kwargs) ==
    [k \in {"model"} \cup DOMAIN kwargs |->
        IF k = "model" THEN claude_model ELSE kwargs[k]]

\* options = ClaudeAgentOptions(model=claude_model): the keyword arguments of
\* the call are in scope and none of them is passed on
ClaudeAgentOptions(claude_model, kwargs) == [model |-> claude_model]

create_litellm_response(content, model, prompt_tokens, completion_tokens) ==
    [object |-> "chat.completion",
     model |-> model,
     content |-> content,
     role |-> "assistant",
     finish_reason |-> "stop",
     index |-> 0,
     usage |-> [prompt_tokens |-> prompt_tokens,
                completion_tokens |-> completion_tokens,
                total_tokens |-> prompt_tokens + completion_tokens]]

api_error_claude_model(model, claude_model) ==
    [type |-> "APIError", status_code |-> StatusCode,
     model |-> claude_model, llm_provider |-> ProviderName]

\* litellm.exceptions.APIError(status_code=500, model=model, llm_provider=...)
api_error(model, claude_model) ==
    [type |-> "APIError", status_code |-> StatusCode,
     model |-> model, llm_provider |-> ProviderName]

NotImplemented == [type |-> "NotImplementedError"]

-----------------------------------------------------------------------------
(* What query() delivers: the SDK's message and block types. *)

TextBlock(text) == [type |-> "TextBlock", text |-> text]
ToolUseBlock == [type |-> "ToolUseBlock"]

AssistantMessage(content) == [type |-> "AssistantMessage", content |-> content]
ResultMessage(usage) == [type |-> "ResultMessage", usage |-> usage]
SystemMessage == [type |-> "SystemMessage"]

\* ResultMessage.usage: None, an empty dict (both falsy), a non-empty dict or
\* an object with attributes.  tokens maps the counts it carries; a key that
\* is absent, or whose value is None, is not in its domain.
NoTokens == [k \in {} |-> 0]
UsageNone == [shape |-> "none", tokens |-> NoTokens]
UsageDict(tokens) == [shape |-> "dict", tokens |-> tokens]
UsageObject(tokens) == [shape |-> "object", tokens |-> tokens]

Abcde == <<"a", "b", "c", "d", "e">>
Ab == <<"a", "b">>
Xyz == <<"x", "y", "z">>

SdkMessages ==
    { AssistantMessage(<<TextBlock(Abcde)>>),
      AssistantMessage(<<TextBlock(Ab), ToolUseBlock, TextBlock(Xyz)>>),
      AssistantMessage(<<TextBlock(Ab)>>),
      SystemMessage,
      ResultMessage(UsageNone),
      ResultMessage(UsageDict([input_tokens |-> 3, output_tokens |-> 5])),
      ResultMessage(UsageDict([input_tokens |-> 0, output_tokens |-> 0])),
      ResultMessage(UsageObject([input_tokens |-> 2])) }

ConcMessages ==
    { AssistantMessage(<<TextBlock(Abcde)>>),
      AssistantMessage(<<TextBlock(Ab), ToolUseBlock, TextBlock(Xyz)>>),
      ResultMessage(UsageDict([input_tokens |-> 3, output_tokens |-> 5])) }

-----------------------------------------------------------------------------
(* The arguments of a call. *)

ModelChars == {"m", Slash}
ModelStrings == SeqsUpTo(ModelChars, MaxModelLen)

Contents == {<<"p">>, <<"q">>}
MessageDicts ==
    {[role |-> r, content |-> t] : r \in {"system", "user", "assistant", "tool"},
                                   t \in Contents}
    \cup {[content |-> t] : t \in Contents}
MessageLists == SeqsUpTo(MessageDicts, MaxMessages)

KwargKeys == {"max_turns", "cwd", "temperature", "user_tag"}
KwargValues == {None, "v"}
KwargDicts == UNION {[K -> KwargValues] : K \in SUBSET KwargKeys}
EmptyDict == [k \in {} |-> None]

ProviderModel == <<"p", Slash, "m">>
BareModel == <<"m">>
Conversation ==
    <<[role |-> "system", content |-> <<"p">>], [role |-> "user", content |-> <<"q">>]>>

Request(model, messages, kwargs) ==
    [model |-> model, messages |-> messages, kwargs |-> kwargs]

\* every model string, every message list and every kwargs dict, each with
\* the other two arguments fixed
WideRequests ==
    {Request(m, Conversation, EmptyDict) : m \in ModelStrings}
    \cup {Request(ProviderModel, ms, EmptyDict) : ms \in MessageLists}
    \cup {Request(ProviderModel, Conversation, kw) : kw \in KwargDicts}

Requests ==
    { Request(ProviderModel, Conversation, [temperature |-> "v", max_turns |-> "v"]),
      Request(BareModel, <<[role |-> "user", content |-> <<"q">>]>>, EmptyDict) }

-----------------------------------------------------------------------------
(* Call frames. *)

Calls == {"c1", "c2"}

QueryKinds == {"completion", "acompletion", "astreaming"}

Idle ==
    [pc |-> "idle", kind |-> "none",
     model |-> <<>>, messages |-> <<>>, kwargs |-> EmptyDict,
     loop_running |-> FALSE, runner |-> "none",
     prompt |-> <<>>, options |-> NoneRec, queries |-> 0,
     stream |-> <<>>,
     content |-> <<>>, prompt_tokens |-> 0, completion_tokens |-> 0,
     chunks |-> <<>>, response |-> NoneRec, error |-> NoneRec]

-----------------------------------------------------------------------------
(* The process that hosts the provider: src/startup.py run as __main__. *)

MasterKeyName == "LITELLM_MASTER_KEY"
ConfigPathName == "CONFIG_FILE_PATH"
ConfigPath == "/app/config/litellm_config.yaml"
KeyPrefix == <<"s", "k", "-">>

StartsWith_anywhere(s, prefix) ==
    \E i \in 1..(Len(s) - Len(prefix) + 1) : SubSeq(s, i, i + Len(prefix) - 1) = prefix

\* s.startswith(prefix)
StartsWith(s, prefix) ==
    Len(s) >= Len(prefix) /\ SubSeq(s, 1, Len(prefix)) = prefix

\* the environment the process is started in: the master key unset, or set
\* to a string, the empty one included
KeyChars == {"s", "k", "-", "x"}
Environs ==
    {[k \in {} |-> <<>>]} \cup {[LITELLM_MASTER_KEY |-> key] : key \in SeqsUpTo(KeyChars, MaxKeyLen)}

\* pc: where __main__ is; steps: what it has done so far, in order;
\* master_key: the local, read at the presence check
Started(environ) ==
    [pc |-> "main", environ |-> environ, master_key |-> <<>>, steps |-> <<>>,
     exit_status |-> -1, server |-> "down"]

\* sys.exit(1)
Exit1(p, step) ==
    [p EXCEPT !.pc = "exited", !.steps = Append(@, step), !.exit_status = 1]

\* os.environ['CONFIG_FILE_PATH'] = '/app/config/litellm_config.yaml'
SetConfigPath ==
    /\ proc.pc = "main"
    /\ proc' = [proc EXCEPT
           !.pc = "check_presence",
           !.environ = [k \in DOMAIN proc.environ \cup {ConfigPathName} |->
                           IF k = ConfigPathName THEN ConfigPath ELSE proc.environ[k]],
           !.steps = Append(@, "config_path")]
    /\ UNCHANGED calls

\* master_key = os.environ.get('LITELLM_MASTER_KEY'); if not master_key: exit
CheckPresence ==
    /\ proc.pc = "check_presence"
    /\ proc' =
           IF MasterKeyName \notin DOMAIN proc.environ
           THEN Exit1(proc, "presence")
           ELSE IF proc.environ[MasterKeyName] = <<>>
           THEN Exit1([proc EXCEPT !.master_key = proc.environ[MasterKeyName]], "presence")
           ELSE [proc EXCEPT !.pc = "check_format",
                             !.master_key = proc.environ[MasterKeyName],
                             !.steps = Append(@, "presence")]
    /\ UNCHANGED calls

\* if not master_key.startswith('sk-'): exit
CheckFormat ==
    /\ proc.pc = "check_format"
    /\ proc' =
           IF ~StartsWith(proc.master_key, KeyPrefix)
           THEN Exit1(proc, "format")
           ELSE [proc EXCEPT !.pc = "import", !.steps = Append(@, "format")]
    /\ UNCHANGED calls

\* import litellm and the report of litellm.custom_provider_map
ImportAndReport ==
    /\ proc.pc = "import"
    /\ proc' = [proc EXCEPT !.pc = "run", !.steps = Append(@, "import")]
    /\ UNCHANGED calls

\* an import of litellm, uvicorn or the proxy app fails: the exception is not
\* caught and the interpreter exits with status 1
ImportFails ==
    /\ proc.pc \in {"import", "run"}
    /\ proc' = Exit1(proc, "import_error")
    /\ UNCHANGED calls

\* uvicorn.run(app, host="0.0.0.0", port=4000)
RunServer ==
    /\ proc.pc = "run"
    /\ proc' = [proc EXCEPT !.pc = "serving", !.steps = Append(@, "uvicorn.run"),
                            !.server = "up"]
    /\ UNCHANGED calls

\* the process of a proxy that has started, in which the provider is called
Serving ==
    [pc |-> "serving",
     environ |-> [k \in {MasterKeyName, ConfigPathName} |->
                     IF k = ConfigPathName THEN ConfigPath ELSE KeyPrefix \o <<"x">>],
     master_key |-> KeyPrefix \o <<"x">>,
     steps |-> <<"config_path", "presence", "format", "import", "uvicorn.run">>,
     exit_status |-> -1, server |-> "up"]

Init == calls = [c \in Calls |-> Idle] /\ proc = Serving

InitStartup == calls = [c \in Calls |-> Idle] /\ proc \in {Started(e) : e \in Environs}

NextStartup ==
    \/ SetConfigPath
    \/ CheckPresence
    \/ CheckFormat
    \/ ImportAndReport
    \/ ImportFails
    \/ RunServer

SpecStartup == InitStartup /\ [][NextStartup]_vars

\* The frame of acompletion or astreaming when it first suspends in
\* `async for message in query(prompt=prompt, options=options)`: the prompt
\* and the options are built, the accumulators are initialised, query has
\* been invoked once.
EnterQuery(kind, model, messages, kwargs, running, runner) ==
    [Idle EXCEPT !.pc = "running", !.kind = kind,
                 !.model = model, !.messages = messages, !.kwargs = kwargs,
                 !.loop_running = running, !.runner = runner,
                 !.prompt = format_messages_to_prompt(messages),
                 !.options = ClaudeAgentOptions(extract_claude_model(model), kwargs),
                 !.queries = 1]

CompletionRunner_caller_loop(running) ==
    IF running THEN "caller_loop" ELSE "new_loop_in_caller_thread"

\* where completion runs the coroutine: asyncio.run in a pool thread when the
\* calling thread has a running loop, asyncio.run in the calling thread else
CompletionRunner(running) ==
    IF running THEN "new_loop_in_pool_thread" ELSE "new_loop_in_caller_thread"

completion(c, model, messages, kwargs, running) ==
    /\ calls[c].pc = "idle"
    /\ calls' = [calls EXCEPT ![c] =
           EnterQuery("completion", model, messages, kwargs, running,
                      CompletionRunner(running))]
    /\ UNCHANGED proc

acompletion(c, model, messages, kwargs) ==
    /\ calls[c].pc = "idle"
    /\ calls' = [calls EXCEPT ![c] =
           EnterQuery("acompletion", model, messages, kwargs, TRUE, "caller_loop")]
    /\ UNCHANGED proc

astreaming(c, model, messages, kwargs) ==
    /\ calls[c].pc = "idle"
    /\ calls' = [calls EXCEPT ![c] =
           EnterQuery("astreaming", model, messages, kwargs, TRUE, "caller_loop")]
    /\ UNCHANGED proc

streaming_delegating(c, model, messages, kwargs) ==
    /\ calls[c].pc = "idle"
    /\ calls' = [calls EXCEPT ![c] =
           EnterQuery("streaming", model, messages, kwargs, FALSE, "new_loop_in_caller_thread")]
    /\ UNCHANGED proc

streaming(c, model, messages, kwargs) ==
    /\ calls[c].pc = "idle"
    /\ calls' = [calls EXCEPT ![c] =
           [Idle EXCEPT !.pc = "raised", !.kind = "streaming",
                        !.model = model, !.messages = messages, !.kwargs = kwargs,
                        !.error = NotImplemented]]
    /\ UNCHANGED proc

\* the handler has returned or raised and its frame is gone
Release(c) ==
    /\ calls[c].pc \in {"returned", "raised"}
    /\ calls' = [calls EXCEPT ![c] = Idle]
    /\ UNCHANGED proc

NextInputs ==
    \E r \in WideRequests :
        \/ \E running \in BOOLEAN : completion("c1", r.model, r.messages, r.kwargs, running)
        \/ acompletion("c1", r.model, r.messages, r.kwargs)
        \/ astreaming("c1", r.model, r.messages, r.kwargs)
        \/ streaming("c1", r.model, r.messages, r.kwargs)
        \/ Release("c1")

SpecInputs == Init /\ [][NextInputs]_vars

-----------------------------------------------------------------------------
(* The body of `async for message in query(...)`. *)

IsTextBlock(block) == block.type = "TextBlock"

RECURSIVE BlocksText(_)
\* for block in message.content: if isinstance(block, TextBlock): += block.text
BlocksText(blocks) ==
    IF blocks = <<>> THEN <<>>
    ELSE (IF IsTextBlock(Head(blocks)) THEN Head(blocks).text ELSE <<>>)
         \o BlocksText(Tail(blocks))

TextChunk(content) ==
    [text |-> content, is_finished |-> FALSE, finish_reason |-> None,
     index |-> 0, tool_use |-> None, usage |-> NoneRec]

BlocksChunks_merged(blocks) ==
    IF BlocksText(blocks) = <<>> THEN <<>> ELSE <<TextChunk(BlocksText(blocks))>>

RECURSIVE BlocksChunks(_)
\* the chunks astreaming yields for one AssistantMessage: one per TextBlock
BlocksChunks(blocks) ==
    IF blocks = <<>> THEN <<>>
    ELSE (IF IsTextBlock(Head(blocks)) THEN <<TextChunk(Head(blocks).text)>> ELSE <<>>)
         \o BlocksChunks(Tail(blocks))

\* hasattr(message, "usage") and message.usage
UsageTruthy(usage) ==
    \/ usage.shape = "object"
    \/ usage.shape = "dict" /\ DOMAIN usage.tokens # {}

\* usage_data.get(key, 0) or 0 for a dict, getattr(usage_data, key, 0) or 0 else
UsageCount(usage, key) ==
    IF usage.shape = "dict"
    THEN Get(usage.tokens, key, 0)
    ELSE IF key \in DOMAIN usage.tokens THEN usage.tokens[key] ELSE 0

\* the branch for a ResultMessage, the same in acompletion and astreaming
OnResultMessage(f, message) ==
    IF UsageTruthy(message.usage)
    THEN [f EXCEPT !.prompt_tokens = UsageCount(message.usage, "input_tokens"),
                   !.completion_tokens = UsageCount(message.usage, "output_tokens")]
    ELSE f

acompletion_message_assigning(f, message) ==
    IF message.type = "AssistantMessage"
    THEN [f EXCEPT !.content =
             IF SelectSeq(message.content, IsTextBlock) = <<>> THEN @
             ELSE Last(SelectSeq(message.content, IsTextBlock)).text]
    ELSE IF message.type = "ResultMessage"
    THEN OnResultMessage(f, message)
    ELSE f

acompletion_message(f, message) ==
    IF message.type = "AssistantMessage"
    THEN [f EXCEPT !.content = @ \o BlocksText(message.content)]
    ELSE IF message.type = "ResultMessage"
    THEN OnResultMessage(f, message)
    ELSE f

astreaming_message(f, message) ==
    IF message.type = "AssistantMessage"
    THEN [f EXCEPT !.content = @ \o BlocksText(message.content),
                   !.chunks = @ \o BlocksChunks(message.content)]
    ELSE IF message.type = "ResultMessage"
    THEN OnResultMessage(f, message)
    ELSE f

OnMessage(f, message) ==
    LET g == [f EXCEPT !.stream = Append(@, message)]
    IN  IF f.kind = "astreaming" THEN astreaming_message(g, message)
        ELSE acompletion_message(g, message)

Deliver_shared(cs, c, message) ==
    [d \in DOMAIN cs |->
        IF d = c THEN OnMessage(cs[c], message)
        ELSE IF cs[d].pc = "running" /\ message.type = "AssistantMessage"
        THEN [cs[d] EXCEPT !.content = @ \o BlocksText(message.content)]
        ELSE cs[d]]

\* a message reaches the call that asked for it: response_content,
\* total_content, prompt_tokens and completion_tokens are locals of that call
Deliver(cs, c, message) == [cs EXCEPT ![c] = OnMessage(cs[c], message)]

QueryYields(c, message, bound) ==
    /\ calls[c].pc = "running"
    /\ Len(calls[c].stream) < bound
    /\ calls' = Deliver(calls, c, message)
    /\ UNCHANGED proc

\* completion_tokens when the loop has ended, in astreaming
FinalCompletionTokens(prompt_tokens, completion_tokens, total_content) ==
    IF prompt_tokens = 0 /\ completion_tokens = 0
    THEN Len(total_content) \div 4
    ELSE completion_tokens

FinalChunk_total_without_completion(prompt_tokens, completion_tokens) ==
    [text |-> <<>>, is_finished |-> TRUE, finish_reason |-> "stop",
     index |-> 0, tool_use |-> None,
     usage |-> [completion_tokens |-> completion_tokens,
                prompt_tokens |-> prompt_tokens,
                total_tokens |-> prompt_tokens]]

FinalChunk(prompt_tokens, completion_tokens) ==
    [text |-> <<>>, is_finished |-> TRUE, finish_reason |-> "stop",
     index |-> 0, tool_use |-> None,
     usage |-> [completion_tokens |-> completion_tokens,
                prompt_tokens |-> prompt_tokens,
                total_tokens |-> prompt_tokens + completion_tokens]]

acompletion_return(f) ==
    [f EXCEPT !.pc = "returned",
              !.response = create_litellm_response(
                  f.content, f.model, f.prompt_tokens, f.completion_tokens)]

astreaming_finish(f) ==
    LET ct == FinalCompletionTokens(f.prompt_tokens, f.completion_tokens, f.content)
    IN  [f EXCEPT !.pc = "returned",
                  !.completion_tokens = ct,
                  !.chunks = Append(@, FinalChunk(f.prompt_tokens, ct))]

\* query's stream ends: the loop is left without an exception
QueryEnds(c) ==
    /\ calls[c].pc = "running"
    /\ calls' = [calls EXCEPT ![c] =
           IF calls[c].kind = "astreaming" THEN astreaming_finish(calls[c])
           ELSE acompletion_return(calls[c])]
    /\ UNCHANGED proc

OnException_final_chunk(f) ==
    [f EXCEPT !.pc = "raised",
              !.chunks = Append(@, FinalChunk(f.prompt_tokens, f.completion_tokens)),
              !.error = api_error(f.model, f.options.model)]

\* except Exception as e: raise litellm.exceptions.APIError(...)
OnException(f) ==
    [f EXCEPT !.pc = "raised",
              !.error = api_error(f.model, f.options.model)]

\* query raises, before its first message or after any number of them
QueryRaises(c) ==
    /\ calls[c].pc = "running"
    /\ calls' = [calls EXCEPT ![c] = OnException(calls[c])]
    /\ UNCHANGED proc

Next ==
    \/ \E r \in Requests :
        \/ \E running \in BOOLEAN : completion("c1", r.model, r.messages, r.kwargs, running)
        \/ acompletion("c1", r.model, r.messages, r.kwargs)
        \/ astreaming("c1", r.model, r.messages, r.kwargs)
        \/ streaming("c1", r.model, r.messages, r.kwargs)
    \/ \E message \in SdkMessages : QueryYields("c1", message, MaxStreamLen)
    \/ QueryEnds("c1")
    \/ QueryRaises("c1")
    \/ Release("c1")

Spec == Init /\ [][Next]_vars

ConcRequest == Request(ProviderModel, Conversation, EmptyDict)

NextConc ==
    \E c \in Calls :
        \/ \E running \in BOOLEAN :
              completion(c, ConcRequest.model, ConcRequest.messages, ConcRequest.kwargs, running)
        \/ acompletion(c, ConcRequest.model, ConcRequest.messages, ConcRequest.kwargs)
        \/ astreaming(c, ConcRequest.model, ConcRequest.messages, ConcRequest.kwargs)
        \/ streaming(c, ConcRequest.model, ConcRequest.messages, ConcRequest.kwargs)
        \/ \E message \in ConcMessages : QueryYields(c, message, MaxConcStreamLen)
        \/ QueryEnds(c)
        \/ QueryRaises(c)
        \/ Release(c)

SpecConc == Init /\ [][NextConc]_vars

-----------------------------------------------------------------------------
(* What a stream of SDK messages says, read off the stream as a whole. *)

MessageTexts(message) ==
    IF message.type = "AssistantMessage"
    THEN LET blocks == SelectSeq(message.content, IsTextBlock)
         IN  [i \in 1..Len(blocks) |-> blocks[i].text]
    ELSE <<>>

\* the texts of the TextBlocks of the AssistantMessages, in stream order
StreamTexts(stream) == Concat([i \in 1..Len(stream) |-> MessageTexts(stream[i])])

StreamContent(stream) == Concat(StreamTexts(stream))

UsageIndexes(stream) ==
    {i \in 1..Len(stream) :
        stream[i].type = "ResultMessage" /\ UsageTruthy(stream[i].usage)}

SuppliesUsage(stream) == UsageIndexes(stream) # {}

\* the usage of the last ResultMessage that carries one
LastUsage(stream) ==
    LET last == CHOOSE i \in UsageIndexes(stream) : \A j \in UsageIndexes(stream) : j <= i
    IN  stream[last].usage.tokens

SuppliesBothCounts(stream) ==
    /\ SuppliesUsage(stream)
    /\ {"input_tokens", "output_tokens"} \subseteq DOMAIN LastUsage(stream)

\* the usage a finished call reports to its caller
Reported(f) ==
    IF f.kind = "astreaming" THEN Last(f.chunks).usage ELSE f.response.usage

Finished(f) == f.kind \in QueryKinds /\ f.pc = "returned"

IsTextChunkOf(chunk, text) ==
    /\ chunk.text = text
    /\ chunk.is_finished = FALSE
    /\ chunk.finish_reason = None
    /\ chunk.usage = NoneRec

IsFinalChunk(chunk) ==
    /\ chunk.text = <<>>
    /\ chunk.is_finished = TRUE
    /\ chunk.finish_reason = "stop"
    /\ chunk.usage # NoneRec

-----------------------------------------------------------------------------
(* Claims about the arguments handed to query. *)

IsSystem(message) == Get(message, "role", "user") = "system"
IsNotSystem(message) == ~IsSystem(message)

SystemContents(messages) ==
    LET sys == SelectSeq(messages, IsSystem)
    IN  [i \in 1..Len(sys) |-> Get(sys[i], "content", <<>>)]

\* C1: the system messages' contents, joined in their order, are passed as
\* the system_prompt option, and the prompt is built from the non-system
\* messages alone.
C1_SystemPromptSeparated ==
    \A c \in Calls :
        calls[c].kind \in QueryKinds =>
            LET f == calls[c]
                joined == Join(SystemContents(f.messages), PartSeparator)
            IN  /\ joined # <<>> =>
                     /\ "system_prompt" \in DOMAIN f.options
                     /\ f.options.system_prompt = joined
                /\ f.prompt = format_messages_to_prompt(SelectSeq(f.messages, IsNotSystem))

Allowlist ==
    {"model", "system_prompt", "max_turns", "allowed_tools", "permission_mode", "cwd"}

ForwardedParams == {"max_turns", "allowed_tools", "permission_mode", "cwd"}

\* C6: the options handed to the SDK hold only allowlisted parameters; an
\* allowlisted keyword argument is in them only if the caller gave it a value
\* other than None, and then with that value; no other keyword argument is.
C6_OptionsAllowlist ==
    \A c \in Calls :
        calls[c].kind \in QueryKinds =>
            LET f == calls[c]
            IN  /\ DOMAIN f.options \subseteq Allowlist
                /\ "model" \in DOMAIN f.options
                /\ \A k \in DOMAIN f.options \cap ForwardedParams :
                     /\ k \in DOMAIN f.kwargs
                     /\ f.kwargs[k] # None
                     /\ f.options[k] = f.kwargs[k]
                /\ \A k \in DOMAIN f.kwargs \ Allowlist : k \notin DOMAIN f.options

\* a call whose keyword arguments hold an allowlisted key set to None, a
\* known unsupported key and an unknown key has built its options
C6_Witness ==
    \E c \in Calls :
        /\ calls[c].kind \in QueryKinds
        /\ calls[c].pc = "running"
        /\ {"max_turns", "temperature", "user_tag", "cwd"} \subseteq DOMAIN calls[c].kwargs
        /\ calls[c].kwargs["max_turns"] = None
        /\ calls[c].kwargs["cwd"] = "v"
        /\ calls[c].kwargs["temperature"] = "v"
        /\ DOMAIN calls[c].options = {"model"}

IsSuffix(r, s) == Len(r) <= Len(s) /\ r = SubSeq(s, Len(s) - Len(r) + 1, Len(s))

\* C8: the model name handed to the SDK is the part of the caller's model
\* string after its last '/', the whole string when it has none; it holds no
\* '/', and extracting again changes nothing.
C8_ExtractClaudeModel ==
    \A c \in Calls :
        calls[c].kind \in QueryKinds =>
            LET model == calls[c].model
                r == calls[c].options.model
            IN  /\ IsSuffix(r, model)
                /\ ~Contains(r, Slash)
                /\ Len(r) < Len(model) => model[Len(model) - Len(r)] = Slash
                /\ ~Contains(model, Slash) => r = model
                /\ extract_claude_model(r) = r

\* a model string with two '/' and a non-empty last segment has been extracted
C8_Witness ==
    \E c \in Calls :
        /\ calls[c].kind \in QueryKinds
        /\ calls[c].model = <<Slash, Slash, "m">>
        /\ calls[c].options.model = <<"m">>

-----------------------------------------------------------------------------
(* Claims about one call and the stream query delivers to it. *)

ChunksFollowTexts(f) ==
    LET texts == StreamTexts(f.stream)
    IN  /\ Len(f.chunks) >= Len(texts)
        /\ \A i \in 1..Len(texts) : IsTextChunkOf(f.chunks[i], texts[i])

\* C2: while the stream lasts astreaming has yielded one unfinished chunk per
\* TextBlock, in stream order and with the block's text; when the stream ends
\* without an exception it yields one final chunk more, which is the last and
\* the only finished one.
C2_StreamingChunks ==
    \A c \in Calls :
        calls[c].kind = "astreaming" =>
            LET f == calls[c]
                n == Len(StreamTexts(f.stream))
            IN  /\ ChunksFollowTexts(f)
                /\ f.pc = "running" => Len(f.chunks) = n
                /\ f.pc = "returned" =>
                     /\ Len(f.chunks) = n + 1
                     /\ IsFinalChunk(f.chunks[n + 1])

\* astreaming has returned after a message with two TextBlocks around a
\* block of another type
C2_Witness ==
    \E c \in Calls :
        /\ calls[c].kind = "astreaming"
        /\ calls[c].pc = "returned"
        /\ \E i \in 1..Len(calls[c].stream) :
              /\ calls[c].stream[i].type = "AssistantMessage"
              /\ Len(calls[c].stream[i].content) = 3
        /\ Len(calls[c].chunks) = 3

\* C2, its last case: a stream without any TextBlock yields the final chunk only
C2_WitnessNoText ==
    \E c \in Calls :
        /\ calls[c].kind = "astreaming"
        /\ calls[c].pc = "returned"
        /\ Len(calls[c].stream) = 2
        /\ Len(calls[c].chunks) = 1

C4_SdkUsageReportedExactly ==
    \A c \in Calls :
        (Finished(calls[c]) /\ SuppliesBothCounts(calls[c].stream)) =>
            /\ Reported(calls[c]).prompt_tokens = LastUsage(calls[c].stream)["input_tokens"]
            /\ Reported(calls[c]).completion_tokens = LastUsage(calls[c].stream)["output_tokens"]

\* C4, where it holds: in completion and acompletion always, and in
\* astreaming unless both supplied counts are 0.
C4_ExactUnlessBothZeroInStreaming ==
    \A c \in Calls :
        (/\ Finished(calls[c])
         /\ SuppliesBothCounts(calls[c].stream)
         /\ \/ calls[c].kind # "astreaming"
            \/ LastUsage(calls[c].stream)["input_tokens"] # 0
            \/ LastUsage(calls[c].stream)["output_tokens"] # 0) =>
            /\ Reported(calls[c]).prompt_tokens = LastUsage(calls[c].stream)["input_tokens"]
            /\ Reported(calls[c]).completion_tokens = LastUsage(calls[c].stream)["output_tokens"]

\* C5: when the stream ends without usage counts, astreaming reports
\* completion_tokens = len(text) // 4, and no finished call reports zero
\* tokens for a text long enough for the heuristic to count one.
C5_EstimatedWhenUsageMissing ==
    \A c \in Calls :
        (Finished(calls[c]) /\ ~SuppliesUsage(calls[c].stream)) =>
            LET text == StreamContent(calls[c].stream)
            IN  /\ calls[c].kind = "astreaming" =>
                     Reported(calls[c]).completion_tokens = Len(text) \div 4
                /\ Len(text) >= 4 =>
                     Reported(calls[c]).prompt_tokens + Reported(calls[c]).completion_tokens > 0

\* C5, where it holds: in astreaming.
C5_StreamingEstimate ==
    \A c \in Calls :
        (Finished(calls[c]) /\ ~SuppliesUsage(calls[c].stream)
            /\ calls[c].kind = "astreaming") =>
            /\ Reported(calls[c]).completion_tokens = Len(StreamContent(calls[c].stream)) \div 4
            /\ Reported(calls[c]).prompt_tokens = 0

ExpectedUsage(stream) ==
    IF SuppliesUsage(stream)
    THEN [prompt_tokens |-> Get(LastUsage(stream), "input_tokens", 0),
          completion_tokens |-> Get(LastUsage(stream), "output_tokens", 0)]
    ELSE [prompt_tokens |-> 0, completion_tokens |-> 0]

\* C7: completion runs acompletion once, on a loop of its own and never on
\* the caller's running loop; it has no result before acompletion ends, and
\* then returns the content and usage acompletion computes from the stream,
\* or raises its error.
C7_CompletionBridgesOnce ==
    \A c \in Calls :
        calls[c].kind = "completion" =>
            LET f == calls[c]
            IN  /\ f.queries = 1
                /\ f.runner # "caller_loop"
                /\ f.runner = IF f.loop_running THEN "new_loop_in_pool_thread"
                              ELSE "new_loop_in_caller_thread"
                /\ f.pc = "running" => f.response = NoneRec /\ f.error = NoneRec
                /\ f.pc = "returned" =>
                     /\ f.error = NoneRec
                     /\ f.response.content = StreamContent(f.stream)
                     /\ f.response.usage.prompt_tokens = ExpectedUsage(f.stream).prompt_tokens
                     /\ f.response.usage.completion_tokens =
                            ExpectedUsage(f.stream).completion_tokens
                /\ f.pc = "raised" => f.response = NoneRec /\ f.error.type = "APIError"

\* completion, called where a loop is running, has returned a response with
\* text and the SDK's usage
C7_Witness ==
    \E c \in Calls :
        /\ calls[c].kind = "completion"
        /\ calls[c].loop_running
        /\ calls[c].pc = "returned"
        /\ calls[c].response.content # <<>>
        /\ calls[c].response.usage.prompt_tokens = 3

\* C9: streaming raises NotImplementedError, invokes query not once and
\* yields no chunk.
C9_SyncStreamingUnsupported ==
    \A c \in Calls :
        calls[c].kind = "streaming" =>
            /\ calls[c].pc = "raised"
            /\ calls[c].error.type = "NotImplementedError"
            /\ calls[c].queries = 0
            /\ calls[c].stream = <<>>
            /\ calls[c].chunks = <<>>
            /\ calls[c].response = NoneRec

C9_Witness ==
    \E c \in Calls :
        /\ calls[c].kind = "streaming"
        /\ calls[c].pc = "raised"
        /\ calls[c].messages # <<>>

-----------------------------------------------------------------------------
(* Claims about calls that share the provider instance. *)

RECURSIVE Replay(_, _)
\* the frame a call reaches when it alone receives the messages of stream
Replay(f, stream) ==
    IF stream = <<>> THEN f ELSE Replay(OnMessage(f, Head(stream)), Tail(stream))

\* the frame of the same call made alone on a fresh provider instance, at
\* the same point of the same stream
Alone(f) ==
    LET start == EnterQuery(f.kind, f.model, f.messages, f.kwargs,
                            f.loop_running, f.runner)
        run == Replay(start, f.stream)
    IN  IF f.pc = "running" THEN run
        ELSE IF f.pc = "raised" THEN OnException(run)
        ELSE IF f.kind = "astreaming" THEN astreaming_finish(run)
        ELSE acompletion_return(run)

\* C10: whatever calls came before on the shared instance and whatever calls
\* run at the same time, a call's accumulated content and token counts, its
\* chunks, its response and its error are those of the same call made alone
\* on a fresh instance with the same model, messages and SDK stream.
C10_NoStateAcrossCalls ==
    \A c \in Calls :
        calls[c].kind \in QueryKinds =>
            /\ calls[c] = Alone(calls[c])
            /\ calls[c].content = StreamContent(calls[c].stream)
            /\ calls[c].pc # "returned" =>
                 /\ calls[c].prompt_tokens = ExpectedUsage(calls[c].stream).prompt_tokens
                 /\ calls[c].completion_tokens =
                        ExpectedUsage(calls[c].stream).completion_tokens

\* two calls are in progress at once, each with text of its own, one of them
\* having received its text after the other had
C10_Witness ==
    /\ calls["c1"].kind = "astreaming"
    /\ calls["c2"].kind = "acompletion"
    /\ calls["c1"].pc = "returned"
    /\ calls["c2"].pc = "running"
    /\ calls["c1"].content = Abcde
    /\ calls["c2"].content = Ab \o Xyz
    /\ calls["c2"].prompt_tokens = 3

-----------------------------------------------------------------------------
(* Claims about the start of the process. *)

HasKey(environ) == MasterKeyName \in DOMAIN environ /\ environ[MasterKeyName] # <<>>

KeyHasPrefix(environ) ==
    LET key == environ[MasterKeyName]
    IN  Len(key) >= 3 /\ key[1] = "s" /\ key[2] = "k" /\ key[3] = "-"

KeyPasses(environ) == HasKey(environ) /\ KeyHasPrefix(environ)

Did(step) == \E i \in 1..Len(proc.steps) : proc.steps[i] = step

\* C11: the server is started only with a master key that is set, not empty
\* and starts with 'sk-'; with any other key the process never reaches
\* uvicorn.run and ends with exit status 1, at the presence check when the
\* key is unset or empty and at the format check otherwise; the format check
\* is never made before the presence check.
C11_ServerOnlyAfterKeyChecks ==
    /\ (proc.server = "up" \/ Did("uvicorn.run")) =>
           KeyPasses(proc.environ) /\ Did("presence") /\ Did("format")
    /\ \A i \in 1..Len(proc.steps) :
           proc.steps[i] = "format" => \E j \in 1..(i - 1) : proc.steps[j] = "presence"
    /\ (~HasKey(proc.environ) /\ Did("presence")) =>
           proc.pc = "exited" /\ proc.exit_status = 1 /\ ~Did("format")
    /\ (HasKey(proc.environ) /\ ~KeyHasPrefix(proc.environ) /\ Did("format")) =>
           proc.pc = "exited" /\ proc.exit_status = 1
    /\ ~KeyPasses(proc.environ) =>
           /\ proc.pc \notin {"import", "run", "serving"}
           /\ proc.pc = "exited" => proc.exit_status = 1

\* a key that holds 'sk-' but does not start with it has been refused at the
\* format check
C11_Witness ==
    /\ HasKey(proc.environ)
    /\ proc.environ[MasterKeyName] = <<"x">> \o KeyPrefix
    /\ proc.steps = <<"config_path", "presence", "format">>
    /\ proc.pc = "exited"
    /\ proc.exit_status = 1
    /\ proc.server = "down"

\* C11, its other cases: an empty key refused at the presence check, and a
\* server started with a key that passes
C11_WitnessEmptyKey ==
    /\ MasterKeyName \in DOMAIN proc.environ
    /\ proc.environ[MasterKeyName] = <<>>
    /\ proc.steps = <<"config_path", "presence">>
    /\ proc.exit_status = 1

C11_WitnessServing == proc.server = "up" /\ proc.environ[MasterKeyName] = KeyPrefix

-----------------------------------------------------------------------------
(* Claims about the usage and the text a finished call hands back. *)

\* C12: in every response and in every final chunk total_tokens is
\* prompt_tokens + completion_tokens, and the three counts are natural
\* numbers, whether they come from the SDK or from the estimate.
C12_TotalIsSum ==
    \A c \in Calls :
        Finished(calls[c]) =>
            LET u == Reported(calls[c])
            IN  /\ u.prompt_tokens \in Nat
                /\ u.completion_tokens \in Nat
                /\ u.total_tokens \in Nat
                /\ u.total_tokens = u.prompt_tokens + u.completion_tokens

\* a final chunk whose completion_tokens is the estimate
C12_Witness ==
    \E c \in Calls :
        /\ calls[c].kind = "astreaming"
        /\ calls[c].pc = "returned"
        /\ ~SuppliesUsage(calls[c].stream)
        /\ Reported(calls[c]).completion_tokens = 2
        /\ Reported(calls[c]).total_tokens = 2

\* C12, its other case: a response with the SDK's counts
C12_WitnessResponse ==
    \E c \in Calls :
        /\ calls[c].kind = "acompletion"
        /\ calls[c].pc = "returned"
        /\ calls[c].response.usage.prompt_tokens = 3
        /\ calls[c].response.usage.total_tokens = 8

RECURSIVE ChunksText(_)
\* the text fields of the chunks, concatenated in order
ChunksText(chunks) ==
    IF chunks = <<>> THEN <<>> ELSE Head(chunks).text \o ChunksText(Tail(chunks))

\* C13: when astreaming and acompletion have finished on the same SDK stream,
\* the concatenated text of astreaming's chunks is the content of
\* acompletion's response; each is the concatenation of the texts of the
\* TextBlocks of the stream's AssistantMessages, to which no other block and
\* no other message adds.
C13_StreamedTextIsContent ==
    \A c \in Calls :
        /\ (calls[c].kind = "astreaming" /\ calls[c].pc = "returned") =>
               /\ ChunksText(calls[c].chunks) = StreamContent(calls[c].stream)
               /\ \A d \in Calls :
                      (/\ calls[d].kind = "acompletion"
                       /\ calls[d].pc = "returned"
                       /\ calls[d].stream = calls[c].stream) =>
                          ChunksText(calls[c].chunks) = calls[d].response.content
        /\ (calls[c].kind \in {"acompletion", "completion"} /\ calls[c].pc = "returned") =>
               calls[c].response.content = StreamContent(calls[c].stream)

\* astreaming and acompletion have both finished on a stream of one
\* AssistantMessage with two TextBlocks around another block, and a
\* ResultMessage
C13_Witness ==
    /\ calls["c1"].kind = "astreaming"
    /\ calls["c2"].kind = "acompletion"
    /\ calls["c1"].pc = "returned"
    /\ calls["c2"].pc = "returned"
    /\ calls["c1"].stream = calls["c2"].stream
    /\ Len(calls["c1"].stream) = 2
    /\ calls["c1"].stream[2].type = "ResultMessage"
    /\ calls["c2"].response.content = Ab \o Xyz

====
